---- MODULE Spec2Model ----
(***************************************************************************)
(* Scout badge inventory: the scan-processing state machine                *)
(* (backend/api/processing.py), the vision-response parser                 *)
(* (backend/services/badge_recognition.py), the matcher's decision         *)
(* (backend/services/badge_matcher.py) and the audited inventory mutations *)
(* (backend/api/inventory.py).                                             *)
(*                                                                         *)
(* Every request handler and every background task opens its own          *)
(* SessionLocal(); the code takes no row lock and keeps no version column, *)
(* so the database orders the reads and the commits of distinct sessions   *)
(* freely.  A model step is therefore one database-visible unit: the       *)
(* statements a session runs up to its next db.commit(), or the commit.    *)
(***************************************************************************)
EXTENDS Integers, Sequences, FiniteSets, TLC

\* ---------------------------------------------------------------- bounds
NumImages == 2
MaxRequests == 2
MaxNameLen == 4
MaxMinScore == 101

\* ------------------------------------------------------- program constants
MinMatchScore == 80
CategoryBoost == 5
InitialQuantity == 0

\* ------------------------------------------------------------------ domains
None == "none"
OasBushcraft == "oas-bushcraft"
GreyWolfAward == "grey-wolf-award"
Badges == {OasBushcraft, GreyWolfAward}
UnknownBadge == "invalid-badge-id"
BadgeIds == Badges \cup {UnknownBadge}

TheScan == 1
UnknownScan == 2
ScanIds == {TheScan, UnknownScan}

Images == 1..NumImages
Sessions == {1, 2}
Tasks == {1, 2}

PENDING == "pending"
PROCESSING == "processing"
COMPLETED == "completed"
FAILED == "failed"

\* request inputs
SetQuantities == {-5, 2}
Adjustments == {-2, 1}

\* vision-model output: a text is a sequence of lines; a line is described by
\* the layout it is written in, the badge name it carries and the token in
\* its count position
Line(layout, name, tok) == [layout |-> layout, name |-> name, tok |-> tok]
\* lines such as "Grey Wolf Award | 1 | high", one per way a line is read
PipeOas2 == Line("pipe", "oasbushcraft", "2")
PipeWolf1 == Line("pipe", "Grey Wolf Award", "1")
PipeWolfNeg == Line("pipe", "Grey Wolf Award", "-1")
PipeWolfMany == Line("pipe", "Grey Wolf Award", "many")
ColonWolf2 == Line("colon", "Grey Wolf Award", "2")
NaturalWolf2 == Line("natural", "Grey Wolf Award", "2")
NaturalOasNeg == Line("natural", "oasbushcraft", "-1")
\* the texts the vision collaborator returns in the end-to-end specification
VisionTexts == {<<PipeWolfNeg>>, <<PipeWolf1>>, <<ColonWolf2, NaturalOasNeg>>,
                <<NaturalWolf2, PipeWolfMany>>}
\* the texts of the processing-only specification
ScanTexts == {<<PipeOas2>>, <<NaturalWolf2, PipeWolf1>>}
\* the texts of the concurrent-inventory specification
InvTexts == {<<PipeWolf1, PipeOas2>>}

\* the sessions and task slots of the end-to-end specification
FlowSessions == {1}
FlowTasks == {1}

VARIABLES
    quantity,          \* Inventory.quantity, per badge
    last_updated,      \* Inventory.last_updated, per badge (logical time)
    adjustments,       \* InventoryAdjustment rows, in commit order
    scan_status,       \* Scan.status
    processed_images,  \* Scan.processed_images
    image_status,      \* ScanImage.status, per image in upload order
    detections,        \* BadgeDetection rows, in insertion order
    sess,              \* inventory request sessions (open transactions)
    task,              \* background tasks of process_scan_background
    clock,             \* datetime.utcnow() as read by the inventory handlers
    event              \* the last handler step and what the caller was told

vars == <<quantity, last_updated, adjustments, scan_status, processed_images,
          image_status, detections, sess, task, clock, event>>

inventory_vars == <<quantity, last_updated, adjustments>>
scan_vars == <<scan_status, processed_images, image_status, detections>>

\* ------------------------------------------------------------ small helpers
Idle == [pc |-> "idle", op |-> "-", pending |-> <<>>, stamp |-> 0]

NoTask == [pc |-> "free", idx |-> 0, failed_images |-> 0,
           seen |-> [i \in Images |-> None], fatal |-> FALSE]

Told(op, who, badge, arg, result, updates) ==
    [op |-> op, who |-> who, badge |-> badge, arg |-> arg,
     result |-> result, updates |-> updates]

\* ------------------------------------------------ the state after set-up
\* init_db / load_badge_data create one Inventory row per badge with
\* quantity 0; upload_images leaves the scan and its images PENDING.
Init ==
    /\ quantity = [b \in Badges |-> InitialQuantity]
    /\ last_updated = [b \in Badges |-> 0]
    /\ adjustments = <<>>
    /\ scan_status = PENDING
    /\ processed_images = 0
    /\ image_status = [i \in Images |-> PENDING]
    /\ detections = <<>>
    /\ sess = [s \in Sessions |-> Idle]
    /\ task = [t \in Tasks |-> NoTask]
    /\ clock = 0
    /\ event = Told("init", 0, "-", 0, "-", <<>>)

\* ------------------------------------------------------ inventory handlers
\* One audit row / one pending Inventory update of a session.
AdjustmentRecord(badge, old_quantity, new_quantity, adjustment, reason, scan_id) ==
    [badge |-> badge, old_quantity |-> old_quantity, new_quantity |-> new_quantity,
     adjustment |-> adjustment, reason |-> reason, scan_id |-> scan_id]

\* The handler has set inventory.quantity / last_updated on its loaded row and
\* db.add()ed the audit rows; nothing is flushed before db.commit()
\* (autoflush=False).
Loaded(s, op, pending) ==
    /\ clock < MaxRequests
    /\ clock' = clock + 1
    /\ sess' = [sess EXCEPT ![s] = [pc |-> "loaded", op |-> op,
                                    pending |-> pending, stamp |-> clock + 1]]

\* A request answered without opening a write: the session is rolled back or
\* simply closed, and the caller gets `result`.  The record keeps the inputs
\* the answer depends on.
Answered(op, badge, arg, result, updates) ==
    /\ event' = Told(op, 0, badge, arg, result, updates)
    /\ UNCHANGED <<inventory_vars, scan_vars, sess, task, clock>>

\* the set handler without the ge=0 constraint of UpdateQuantityRequest
update_inventory_quantity_Unvalidated(s, badge_id, q) ==
    /\ sess[s].pc = "idle"
    /\ IF badge_id \notin Badges
         THEN Answered("set", badge_id, 0, "404", <<>>)
       ELSE LET old_quantity == quantity[badge_id]
                new_quantity == q
                adjustment == new_quantity - old_quantity
            IN /\ Loaded(s, "set", <<AdjustmentRecord(badge_id, old_quantity,
                                   new_quantity, adjustment, "Manual update", 0)>>)
               /\ event' = Told("set", s, badge_id, q, "loaded", <<>>)
               /\ UNCHANGED <<inventory_vars, scan_vars, task>>

\* PUT /inventory/{badge_id}: set the quantity (lines 346-406).
update_inventory_quantity(s, badge_id, q) ==
    /\ sess[s].pc = "idle"
    /\ IF q < 0
         THEN Answered("set", "-", q, "422", <<>>)
       ELSE IF badge_id \notin Badges
         THEN Answered("set", badge_id, 0, "404", <<>>)
       ELSE LET old_quantity == quantity[badge_id]
                new_quantity == q
                adjustment == new_quantity - old_quantity
            IN /\ Loaded(s, "set", <<AdjustmentRecord(badge_id, old_quantity,
                                   new_quantity, adjustment, "Manual update", 0)>>)
               /\ event' = Told("set", s, badge_id, q, "loaded", <<>>)
               /\ UNCHANGED <<inventory_vars, scan_vars, task>>

\* the adjustment handler without the check of lines 489-495
manual_inventory_adjustment_Unchecked(s, badge_id, adjustment) ==
    /\ sess[s].pc = "idle"
    /\ IF badge_id \notin Badges
         THEN Answered("adjust", badge_id, 0, "404", <<>>)
       ELSE LET old_quantity == quantity[badge_id]
                new_quantity == old_quantity + adjustment
            IN /\ Loaded(s, "adjust", <<AdjustmentRecord(badge_id, old_quantity,
                                   new_quantity, adjustment, "adjust", 0)>>)
               /\ event' = Told("adjust", s, badge_id, adjustment, "loaded", <<>>)
               /\ UNCHANGED <<inventory_vars, scan_vars, task>>

\* POST /inventory/adjust: add a signed amount (lines 445-510).
manual_inventory_adjustment(s, badge_id, adjustment) ==
    /\ sess[s].pc = "idle"
    /\ IF badge_id \notin Badges
         THEN Answered("adjust", badge_id, 0, "404", <<>>)
       ELSE LET old_quantity == quantity[badge_id]
                new_quantity == old_quantity + adjustment
            IN IF new_quantity < 0
                 THEN Answered("adjust", badge_id, adjustment, "400", <<>>)
               ELSE /\ Loaded(s, "adjust", <<AdjustmentRecord(badge_id, old_quantity,
                                        new_quantity, adjustment, "adjust", 0)>>)
                    /\ event' = Told("adjust", s, badge_id, adjustment, "loaded", <<>>)
                    /\ UNCHANGED <<inventory_vars, scan_vars, task>>

\* an aggregation that keeps one entry per detection
RECURSIVE BadgeQuantities_PerDetection(_, _)
BadgeQuantities_PerDetection(dets, acc) ==
    IF dets = <<>> THEN acc
    ELSE BadgeQuantities_PerDetection(Tail(dets),
           Append(acc, [badge |-> Head(dets).badge, quantity |-> Head(dets).quantity]))

\* The dict badge_quantities of update_inventory_from_scan (lines 671-680):
\* one entry per badge in order of first appearance, quantities summed.
RECURSIVE BadgeQuantities(_, _)
BadgeQuantities(dets, acc) ==
    IF dets = <<>> THEN acc
    ELSE LET d == Head(dets)
             at == {i \in 1..Len(acc) : acc[i].badge = d.badge}
         IN BadgeQuantities(Tail(dets),
              IF at = {}
                THEN Append(acc, [badge |-> d.badge, quantity |-> 0 + d.quantity])
              ELSE LET i == CHOOSE j \in at : TRUE
                   IN [acc EXCEPT ![i].quantity = @ + d.quantity])

\* The list `updates` the handler prepares (lines 682-704): for each entry of
\* the dict, the loaded Inventory quantity, the summed detections, their sum.
ScanUpdates(q, dets, scan_id) ==
    LET bq == BadgeQuantities(dets, <<>>)
    IN [i \in 1..Len(bq) |->
          AdjustmentRecord(bq[i].badge, q[bq[i].badge], q[bq[i].badge] + bq[i].quantity,
                           bq[i].quantity, "Updated from scan", scan_id)]

\* a handler that ignores apply_adjustments and always prepares the write
update_inventory_from_scan_AlwaysApplies(s, scan_id, apply_adjustments) ==
    /\ sess[s].pc = "idle"
    /\ LET arg == IF apply_adjustments THEN 1 ELSE 0
       IN IF scan_id # TheScan
            THEN Answered("scan", "-", arg, "404", <<>>)
          ELSE IF scan_status # COMPLETED
            THEN Answered("scan", "-", arg, "400", <<>>)
          ELSE LET updates == ScanUpdates(quantity, detections, scan_id)
               IN /\ Loaded(s, "scan", updates)
                  /\ event' = Told("scan", s, "-", arg,
                                   IF apply_adjustments THEN "loaded" ELSE "200", updates)
                  /\ UNCHANGED <<inventory_vars, scan_vars, task>>

\* a handler without the status check of lines 650-655
update_inventory_from_scan_AnyStatus(s, scan_id, apply_adjustments) ==
    /\ sess[s].pc = "idle"
    /\ LET arg == IF apply_adjustments THEN 1 ELSE 0
       IN IF scan_id # TheScan
            THEN Answered("scan", "-", arg, "404", <<>>)
          ELSE LET updates == ScanUpdates(quantity, detections, scan_id)
               IN IF apply_adjustments
                    THEN /\ Loaded(s, "scan", updates)
                         /\ event' = Told("scan", s, "-", arg, "loaded", updates)
                         /\ UNCHANGED <<inventory_vars, scan_vars, task>>
                  ELSE Answered("scan", "-", arg, "200", updates)

\* POST /inventory/update-from-scan/{scan_id} (lines 616-727).
update_inventory_from_scan(s, scan_id, apply_adjustments) ==
    /\ sess[s].pc = "idle"
    /\ LET arg == IF apply_adjustments THEN 1 ELSE 0
       IN IF scan_id # TheScan
            THEN Answered("scan", "-", arg, "404", <<>>)
          ELSE IF scan_status # COMPLETED
            THEN Answered("scan", "-", arg, "400", <<>>)
          ELSE LET updates == ScanUpdates(quantity, detections, scan_id)
               IN IF apply_adjustments
                    THEN /\ Loaded(s, "scan", updates)
                         /\ event' = Told("scan", s, "-", arg, "loaded", updates)
                         /\ UNCHANGED <<inventory_vars, scan_vars, task>>
                  ELSE Answered("scan", "-", arg, "200", updates)

\* The UPDATE statements of one flush: every loaded Inventory row the handler
\* assigned gets the handler's value.
FlushQuantity(q, pending) ==
    [b \in Badges |->
       LET mine == {i \in 1..Len(pending) : pending[i].badge = b}
       IN IF mine = {} THEN q[b]
          ELSE pending[CHOOSE i \in mine : TRUE].new_quantity]

FlushLastUpdated(lu, pending, stamp) ==
    [b \in Badges |->
       IF \E i \in 1..Len(pending) : pending[i].badge = b THEN stamp ELSE lu[b]]

\* a flush that loses the audit rows
FlushAdjustments_Lost(rows, pending) == rows

\* The INSERT statements of one flush: the db.add()ed InventoryAdjustment rows.
FlushAdjustments(rows, pending) == rows \o pending

\* db.commit() of an inventory handler (lines 409, 513, 731): the pending
\* Inventory updates and audit rows become visible together.
Commit(s) ==
    /\ sess[s].pc = "loaded"
    /\ quantity' = FlushQuantity(quantity, sess[s].pending)
    /\ last_updated' = FlushLastUpdated(last_updated, sess[s].pending, sess[s].stamp)
    /\ adjustments' = FlushAdjustments(adjustments, sess[s].pending)
    /\ sess' = [sess EXCEPT ![s] = Idle]
    /\ event' = Told("commit", s, "-", sess[s].stamp, "200", sess[s].pending)
    /\ UNCHANGED <<scan_vars, task, clock>>

\* `except Exception: db.rollback()` (lines 428-434, 533-539, 752-758): the
\* handler raised after preparing `done` of its updates; nothing was flushed.
Rollback(s, done) ==
    /\ sess[s].pc = "loaded"
    /\ done \in 0..Len(sess[s].pending)
    /\ sess' = [sess EXCEPT ![s] = Idle]
    /\ event' = Told("rollback", s, "-", done, "500", sess[s].pending)
    /\ UNCHANGED <<inventory_vars, scan_vars, task, clock>>

InventoryNext(sessions) ==
    \/ \E s \in sessions, b \in BadgeIds, q \in SetQuantities :
          update_inventory_quantity(s, b, q)
    \/ \E s \in sessions, b \in BadgeIds, d \in Adjustments :
          manual_inventory_adjustment(s, b, d)
    \/ \E s \in sessions, id \in ScanIds, apply \in BOOLEAN :
          update_inventory_from_scan(s, id, apply)
    \/ \E s \in sessions : Commit(s)
    \/ \E s \in sessions, done \in 0..Cardinality(Badges) : Rollback(s, done)

\* ------------------------------------------------- parser of vision output
IsDigits(tok) == tok \in {"1", "2"}

\* int() of a token that int() accepts
IntOf(tok) == CASE tok = "-1" -> -1 [] tok = "1" -> 1 [] tok = "2" -> 2

\* the digits the pattern \d+ finds in a token, as a number
DigitsOf(tok) == CASE tok = "-1" -> 1 [] tok = "1" -> 1 [] tok = "2" -> 2

\* what the lazy group (.+?) followed by (?:\s|$) keeps of a name: its first word
FirstWord(name) == CASE name = "Grey Wolf Award" -> "Grey" [] OTHER -> name

RawDetection(badge_name, count) == [badge_name |-> badge_name, count |-> count]

\* BadgeRecognitionService._parse_response, one line (lines 175-235).
ParseLine(line) ==
    IF line.layout = "comment" THEN <<>>
    ELSE IF line.layout \in {"pipe", "pipe2"}
      THEN IF line.layout = "pipe2" THEN <<>>
           ELSE IF line.tok = "many" THEN <<>>
           ELSE <<RawDetection(line.name, IntOf(line.tok))>>
    ELSE IF line.layout = "colon"
      THEN IF IsDigits(line.tok)
             THEN <<RawDetection(line.name, IntOf(line.tok))>>
           ELSE <<>>
    ELSE IF line.tok = "many" THEN <<>>
         ELSE <<RawDetection(FirstWord(line.name), DigitsOf(line.tok))>>

\* BadgeRecognitionService._parse_response (lines 155-237).
RECURSIVE ParseResponse(_)
ParseResponse(text) ==
    IF text = <<>> THEN <<>>
    ELSE ParseLine(Head(text)) \o ParseResponse(Tail(text))

\* The texts the parser is called with: one or two lines, each in one of the
\* three layouts, with a count token int() accepts, a signed one, or a word.
ParseLayouts == {"pipe", "colon", "natural"}
ParseNames == {"oasbushcraft", "Grey Wolf Award"}
ParseTokens == {"1", "2", "-1", "many"}
ParseLines == {Line(layout, name, tok) :
                 layout \in ParseLayouts, name \in ParseNames, tok \in ParseTokens}
ParseTexts == {<<a>> : a \in ParseLines} \cup {<<a, b>> : a, b \in ParseLines}

\* One call of _parse_response; the record keeps the list it returns.
Parse ==
    /\ event.op = "parse?"
    /\ event' = Told("parse", 0, "-", 0, "-", ParseResponse(event.updates))
    /\ UNCHANGED <<inventory_vars, scan_vars, sess, task, clock>>

\* ------------------------------------------------------ name normalization
\* A name is a sequence of characters.  The characters names are drawn from:
\* an upper-case and two lower-case letters, a full stop, a space and '&'.
NameAlphabet == {"O", "a", "s", ".", " ", "&"}
Names == UNION {[1..n -> NameAlphabet] : n \in 0..MaxNameLen}

\* str.lower() on one character
Lower(c) == IF c = "O" THEN "o" ELSE c

\* the characters the pattern [^\w\s] matches
IsSpecial(c) == c \in {".", "&"}

\* the dict `replacements` of _normalize_name, in insertion order (lines 126-136)
Replacements ==
    << <<<<"o", "a", "s">>,
         <<"o", "u", "t", "d", "o", "o", "r", " ", "a", "d", "v", "e", "n", "t", "u", "r", "e", " ", "s", "k", "i", "l", "l", "s">>>>,
       <<<<"s", "i", "a">>,
         <<"s", "p", "e", "c", "i", "a", "l", " ", "i", "n", "t", "e", "r", "e", "s", "t", " ", "a", "r", "e", "a">>>>,
       <<<<"&">>,
         <<"a", "n", "d">>>>,
       <<<<"s", "t", "a", "g", "e", " ", "1">>,
         <<"1">>>>,
       <<<<"s", "t", "a", "g", "e", " ", "2">>,
         <<"2">>>>,
       <<<<"s", "t", "a", "g", "e", " ", "3">>,
         <<"3">>>>,
       <<<<"s", "t", "a", "g", "e", " ", "4">>,
         <<"4">>>>,
       <<<<"l", "e", "v", "e", "l", " ", "1">>,
         <<"1">>>>,
       <<<<"l", "e", "v", "e", "l", " ", "2">>,
         <<"2">>>> >>

StartsWith(str, old) ==
    Len(old) <= Len(str) /\ SubSeq(str, 1, Len(old)) = old

\* str.replace(old, new): every non-overlapping occurrence, left to right
RECURSIVE Replace(_, _, _)
Replace(str, old, new) ==
    IF str = <<>> THEN <<>>
    ELSE IF StartsWith(str, old)
      THEN new \o Replace(SubSeq(str, Len(old) + 1, Len(str)), old, new)
    ELSE <<Head(str)>> \o Replace(Tail(str), old, new)

\* the loop over `replacements` (lines 138-139), from entry k on
RECURSIVE ReplaceAll(_, _)
ReplaceAll(str, k) ==
    IF k > Len(Replacements) THEN str
    ELSE ReplaceAll(Replace(str, Replacements[k][1], Replacements[k][2]), k + 1)

RECURSIVE DropSpaces(_)
DropSpaces(str) ==
    IF str # <<>> /\ Head(str) = " " THEN DropSpaces(Tail(str)) ELSE str

RECURSIVE FirstToken(_)
FirstToken(str) ==
    IF str = <<>> \/ Head(str) = " " THEN <<>>
    ELSE <<Head(str)>> \o FirstToken(Tail(str))

\* ' '.join(str.split()) (line 145)
RECURSIVE JoinSplit(_)
JoinSplit(str) ==
    LET t == DropSpaces(str)
        w == FirstToken(t)
        rest == DropSpaces(SubSeq(t, Len(w) + 1, Len(t)))
    IN IF t = <<>> THEN <<>>
       ELSE IF rest = <<>> THEN w
       ELSE w \o <<" ">> \o JoinSplit(rest)

\* BadgeMatcherService._normalize_name (lines 108-148).
normalize_name(name) ==
    LET lowered == [i \in 1..Len(name) |-> Lower(name[i])]
        replaced == ReplaceAll(lowered, 1)
        cleaned == SelectSeq(replaced, LAMBDA c : ~IsSpecial(c))
    IN JoinSplit(cleaned)

\* One more application of _normalize_name to the name at hand; the record
\* keeps the name it was applied to and how many applications were made.
Normalize ==
    /\ event.op \in {"name", "normalized"}
    /\ event.arg < 2
    /\ event' = Told("normalized", 0, event.updates, event.arg + 1, "-",
                     normalize_name(event.updates))
    /\ UNCHANGED <<inventory_vars, scan_vars, sess, task, clock>>

\* ----------------------------------------------------------------- matcher
\* The catalog is {oas-bushcraft: "OAS Bushcraft", grey-wolf-award:
\* "Grey Wolf Award"}; _build_abbreviation_map registers "oasbushcraft" and
\* "oas bushcraft" for the first and nothing for the second.
CheckAbbreviation(detected_name) ==
    IF detected_name = "oasbushcraft" THEN OasBushcraft ELSE None

\* The best catalog entry and its blended rapidfuzz score (lines 256-278) for
\* the detected names that reach the fuzzy path: the exact catalog name scores
\* 100 on all three ratios; "Grey" against "grey wolf award" scores
\* 0.5*42 + 0.3*100 + 0.2*100 = 71.
BestFuzzy(detected_name) ==
    CASE detected_name = "Grey Wolf Award" -> [badge_id |-> GreyWolfAward, score |-> 100]
      [] detected_name = "Grey" -> [badge_id |-> GreyWolfAward, score |-> 71]
      [] OTHER -> [badge_id |-> None, score |-> 0]

\* BadgeMatcherService.match_badge_name (lines 213-319) of a service built
\* over the catalog `badges` with threshold `min_match_score`.  An empty
\* catalog has no abbreviations and no candidate: the scoring loop does not
\* run and leaves best_match = None, best_score = 0.0.
MatchIn(badges, min_match_score, detected_name) ==
    LET abbrev_match == IF badges = {} THEN None ELSE CheckAbbreviation(detected_name)
        best == IF badges = {} THEN [badge_id |-> None, score |-> 0]
                ELSE BestFuzzy(detected_name)
        matched == best.score >= min_match_score
    IN IF abbrev_match # None
         THEN [badge_id |-> abbrev_match, match_score |-> 100, matched |-> TRUE]
       ELSE IF matched /\ best.badge_id # None
         THEN [badge_id |-> best.badge_id, match_score |-> best.score, matched |-> TRUE]
       ELSE [badge_id |-> "", match_score |-> best.score, matched |-> FALSE]

\* The service process_scan_background builds: the loaded catalog and the
\* default threshold.
match_badge_name(detected_name) == MatchIn(Badges, MinMatchScore, detected_name)

\* the inputs of a call: the catalog the service was built over, its
\* threshold and the detected name
Catalogs == {{}, Badges}
MinScores == 0..MaxMinScore
MatchNames == {"oasbushcraft", "Grey Wolf Award", "Grey"}

\* One call of match_badge_name on the inputs at hand; the record keeps the
\* threshold and the BadgeMatch returned.
Match ==
    /\ event.op = "call"
    /\ event' = Told("match", 0, event.badge, event.arg, "-",
                     MatchIn(event.updates, event.arg, event.badge))
    /\ UNCHANGED <<inventory_vars, scan_vars, sess, task, clock>>

\* badge_data["category"] of the catalog entries
CategoryOf(badge_id) == IF badge_id = GreyWolfAward THEN "Award" ELSE "OAS"

\* `category_hint.lower() in badge_category.lower()` (lines 267-269) for the
\* hints used here
HintMatches(category_hint, badge_id) ==
    category_hint = "award" /\ CategoryOf(badge_id) = "Award"

\* The scoring loop with the category boost (lines 256-278): the hint used
\* here names the category of the best candidate only, so that candidate
\* stays the best and its score grows by category_boost.
BestFuzzyHinted(detected_name, category_hint) ==
    LET best == BestFuzzy(detected_name)
    IN IF category_hint # None /\ best.badge_id # None
            /\ HintMatches(category_hint, best.badge_id)
         THEN [best EXCEPT !.score = @ + CategoryBoost]
       ELSE best

\* min(a, b)
Min(a, b) == IF a <= b THEN a ELSE b

\* match_badge_name with all its arguments and the confidence it returns
\* (lines 213-319).  Confidences are in thousandths: ollama_confidence * 1.1
\* is c * 11 / 10, and ollama_confidence * 0.4 + best_score / 100 * 0.6 is
\* c * 4 / 10 + best_score * 6.
MatchScored(badges, min_match_score, detected_name, ollama_confidence, category_hint) ==
    LET abbrev_match == IF badges = {} THEN None ELSE CheckAbbreviation(detected_name)
        best == IF badges = {} THEN [badge_id |-> None, score |-> 0]
                ELSE BestFuzzyHinted(detected_name, category_hint)
        matched == best.score >= min_match_score
        combined_confidence == (ollama_confidence * 4) \div 10 + best.score * 6
    IN IF abbrev_match # None
         THEN [badge_id |-> abbrev_match, match_score |-> 100, matched |-> TRUE,
               confidence_score |-> Min((ollama_confidence * 11) \div 10, 1000)]
       ELSE IF matched /\ best.badge_id # None
         THEN [badge_id |-> best.badge_id, match_score |-> best.score, matched |-> TRUE,
               confidence_score |-> combined_confidence]
       ELSE [badge_id |-> "", match_score |-> best.score, matched |-> FALSE,
             confidence_score |-> combined_confidence]

\* ollama_confidence from 0.0 to 1.0 in steps of 0.05, in thousandths
Confidences == {50 * k : k \in 0..20}
CategoryHints == {None, "award"}

\* One call of match_badge_name with a confidence and a category hint; the
\* record keeps the BadgeMatch returned.
Score ==
    /\ event.op = "score?"
    /\ event' = Told("score", 0, event.badge, event.arg, event.result,
                     MatchScored(event.updates, MinMatchScore, event.badge,
                                 event.arg, event.result))
    /\ UNCHANGED <<inventory_vars, scan_vars, sess, task, clock>>

\* ------------------------------------------------------------ scan processing
BadgeDetection(scan_image_id, badge, count) ==
    [scan_image_id |-> scan_image_id, badge |-> badge, quantity |-> count]

\* a matching loop that also stores the best candidate of an unmatched detection
RECURSIVE MatchedDetections_KeepsUnmatched(_, _)
MatchedDetections_KeepsUnmatched(image, raw) ==
    IF raw = <<>> THEN <<>>
    ELSE LET detection == Head(raw)
             match == match_badge_name(detection.badge_name)
             best == BestFuzzy(detection.badge_name)
         IN (IF match.matched /\ match.badge_id \in Badges
               THEN <<BadgeDetection(image, match.badge_id, detection.count)>>
             ELSE IF best.badge_id \in Badges
               THEN <<BadgeDetection(image, best.badge_id, detection.count)>>
             ELSE <<>>) \o MatchedDetections_KeepsUnmatched(image, Tail(raw))

\* The matching loop of process_scan_background (lines 222-257): one
\* BadgeDetection per matched raw detection, in order.
RECURSIVE MatchedDetections(_, _)
MatchedDetections(image, raw) ==
    IF raw = <<>> THEN <<>>
    ELSE LET detection == Head(raw)
             match == match_badge_name(detection.badge_name)
         IN (IF match.matched /\ match.badge_id \in Badges
               THEN <<BadgeDetection(image, match.badge_id, detection.count)>>
             ELSE <<>>) \o MatchedDetections(image, Tail(raw))

\* a start handler without the conflict checks of lines 346-357
start_processing_NoConflict(scan_id, slots) ==
    IF scan_id # TheScan
      THEN /\ event' = Told("start", 0, "-", scan_id, "404", <<>>)
           /\ UNCHANGED <<inventory_vars, scan_vars, sess, task, clock>>
    ELSE IF NumImages = 0
      THEN /\ event' = Told("start", 0, "-", scan_id, "400", <<>>)
           /\ UNCHANGED <<inventory_vars, scan_vars, sess, task, clock>>
    ELSE \E t \in slots :
           /\ task[t].pc = "free"
           /\ \A u \in slots : u < t => task[u].pc # "free"
           /\ task' = [task EXCEPT ![t].pc = "scheduled"]
           /\ event' = Told("start", t, "-", scan_id, "202", <<>>)
           /\ UNCHANGED <<inventory_vars, scan_vars, sess, clock>>

\* a start handler that also refuses a scan it has already scheduled
start_processing_OnlyOnce(scan_id, slots) ==
    IF scan_id # TheScan
      THEN /\ event' = Told("start", 0, "-", scan_id, "404", <<>>)
           /\ UNCHANGED <<inventory_vars, scan_vars, sess, task, clock>>
    ELSE IF scan_status \in {PROCESSING, COMPLETED} \/ \E u \in slots : task[u].pc # "free"
      THEN /\ event' = Told("start", 0, "-", scan_id, "409", <<>>)
           /\ UNCHANGED <<inventory_vars, scan_vars, sess, task, clock>>
    ELSE IF NumImages = 0
      THEN /\ event' = Told("start", 0, "-", scan_id, "400", <<>>)
           /\ UNCHANGED <<inventory_vars, scan_vars, sess, task, clock>>
    ELSE \E t \in slots :
           /\ task[t].pc = "free"
           /\ \A u \in slots : u < t => task[u].pc # "free"
           /\ task' = [task EXCEPT ![t].pc = "scheduled"]
           /\ event' = Told("start", t, "-", scan_id, "202", <<>>)
           /\ UNCHANGED <<inventory_vars, scan_vars, sess, clock>>

\* POST /process/{scan_id} (lines 312-382).
start_processing(scan_id, slots) ==
    IF scan_id # TheScan
      THEN /\ event' = Told("start", 0, "-", scan_id, "404", <<>>)
           /\ UNCHANGED <<inventory_vars, scan_vars, sess, task, clock>>
    ELSE IF scan_status \in {PROCESSING, COMPLETED}
      THEN /\ event' = Told("start", 0, "-", scan_id, "409", <<>>)
           /\ UNCHANGED <<inventory_vars, scan_vars, sess, task, clock>>
    ELSE IF NumImages = 0
      THEN /\ event' = Told("start", 0, "-", scan_id, "400", <<>>)
           /\ UNCHANGED <<inventory_vars, scan_vars, sess, task, clock>>
    ELSE \E t \in slots :
           /\ task[t].pc = "free"
           /\ \A u \in slots : u < t => task[u].pc # "free"
           /\ task' = [task EXCEPT ![t].pc = "scheduled"]
           /\ event' = Told("start", t, "-", scan_id, "202", <<>>)
           /\ UNCHANGED <<inventory_vars, scan_vars, sess, clock>>

\* process_scan_background, lines 157-170: the task starts and commits
\* status = PROCESSING.
Begin(t) ==
    /\ task[t].pc = "scheduled"
    /\ scan_status' = PROCESSING
    /\ task' = [task EXCEPT ![t].pc = IF NumImages = 0 THEN "finish" ELSE "progress",
                            ![t].idx = 1]
    /\ event' = Told("begin", t, "-", 0, "-", <<>>)
    /\ UNCHANGED <<inventory_vars, processed_images, image_status, detections,
                   sess, clock>>

\* lines 174-186 raise (catalog load, service set-up, image query): the outer
\* handler (lines 296-299) marks the scan FAILED before any image is attempted.
Fatal(t) ==
    /\ task[t].pc = "progress"
    /\ task[t].idx = 1
    /\ scan_status' = FAILED
    /\ task' = [task EXCEPT ![t].pc = "done", ![t].fatal = TRUE]
    /\ event' = Told("fatal", t, "-", 0, "-", <<>>)
    /\ UNCHANGED <<inventory_vars, processed_images, image_status, detections,
                   sess, clock>>

\* a progress step that writes 0 before every image
UpdateProgress_Resets(t) ==
    /\ task[t].pc = "progress"
    /\ processed_images' = 0
    /\ task' = [task EXCEPT ![t].pc = "mark"]
    /\ event' = Told("progress", t, "-", task[t].idx, "-", <<>>)
    /\ UNCHANGED <<inventory_vars, scan_status, image_status, detections,
                   sess, clock>>

\* lines 196-199: processed_images = idx - 1, committed before the image.
UpdateProgress(t) ==
    /\ task[t].pc = "progress"
    /\ processed_images' = task[t].idx - 1
    /\ task' = [task EXCEPT ![t].pc = "mark"]
    /\ event' = Told("progress", t, "-", task[t].idx, "-", <<>>)
    /\ UNCHANGED <<inventory_vars, scan_status, image_status, detections,
                   sess, clock>>

\* lines 201-207: the image is committed as PROCESSING.
MarkProcessing(t) ==
    /\ task[t].pc = "mark"
    /\ image_status' = [image_status EXCEPT ![task[t].idx] = PROCESSING]
    /\ task' = [task EXCEPT ![t].pc = "detect"]
    /\ event' = Told("mark", t, "-", task[t].idx, "-", <<>>)
    /\ UNCHANGED <<inventory_vars, scan_status, processed_images, detections,
                   sess, clock>>

\* the loop moves to the next image, or leaves for lines 277-294
NextImage(tk, status, failed) ==
    [tk EXCEPT !.pc = IF tk.idx = NumImages THEN "finish" ELSE "progress",
               !.idx = tk.idx + 1,
               !.failed_images = tk.failed_images + failed,
               !.seen[tk.idx] = status]

\* a failure that leaves the loop instead of continuing with the next image
DetectionFailed_Abort(t) ==
    /\ task[t].pc = "detect"
    /\ image_status' = [image_status EXCEPT ![task[t].idx] = FAILED]
    /\ task' = [task EXCEPT ![t].pc = "finish",
                            ![t].failed_images = @ + 1,
                            ![t].seen[task[t].idx] = FAILED]
    /\ event' = Told("detect", t, "-", task[t].idx, FAILED, <<>>)
    /\ UNCHANGED <<inventory_vars, scan_status, processed_images, detections,
                   sess, clock>>

\* lines 209-217: the vision collaborator reports failure.
DetectionFailed(t) ==
    /\ task[t].pc = "detect"
    /\ image_status' = [image_status EXCEPT ![task[t].idx] = FAILED]
    /\ task' = [task EXCEPT ![t] = NextImage(task[t], FAILED, 1)]
    /\ event' = Told("detect", t, "-", task[t].idx, FAILED, <<>>)
    /\ UNCHANGED <<inventory_vars, scan_status, processed_images, detections,
                   sess, clock>>

\* lines 209-267: the collaborator returns `text`; its matched detections are
\* stored, the image is COMPLETED and processed_images = idx, in one commit.
ImageCompleted(t, text) ==
    /\ task[t].pc = "detect"
    /\ LET found == MatchedDetections(task[t].idx, ParseResponse(text))
       IN /\ detections' = detections \o found
          /\ event' = Told("detect", t, "-", task[t].idx, COMPLETED, found)
    /\ image_status' = [image_status EXCEPT ![task[t].idx] = COMPLETED]
    /\ processed_images' = task[t].idx
    /\ task' = [task EXCEPT ![t] = NextImage(task[t], COMPLETED, 0)]
    /\ UNCHANGED <<inventory_vars, scan_status, sess, clock>>

\* lines 269-274: an exception is raised while the image is handled, after
\* `added` of its detections were db.add()ed; the handler marks the image
\* FAILED and commits, which also flushes what the session holds.
ImageException(t, text, added) ==
    /\ task[t].pc = "detect"
    /\ LET found == MatchedDetections(task[t].idx, ParseResponse(text))
       IN /\ added \in 0..Len(found)
          /\ detections' = detections \o SubSeq(found, 1, added)
          /\ event' = Told("detect", t, "-", task[t].idx, "exception",
                           SubSeq(found, 1, added))
    /\ image_status' = [image_status EXCEPT ![task[t].idx] = FAILED]
    /\ task' = [task EXCEPT ![t] = NextImage(task[t], FAILED, 1)]
    /\ UNCHANGED <<inventory_vars, scan_status, processed_images, sess, clock>>

\* a final status that fails the scan as soon as one image failed
Finish_AnyFailure(t) ==
    /\ task[t].pc = "finish"
    /\ scan_status' = IF task[t].failed_images > 0 THEN FAILED ELSE COMPLETED
    /\ task' = [task EXCEPT ![t].pc = "done"]
    /\ event' = Told("finish", t, "-", task[t].failed_images, "-", <<>>)
    /\ UNCHANGED <<inventory_vars, processed_images, image_status, detections,
                   sess, clock>>

\* an end of run that never writes the final status
Finish_NoStatus(t) ==
    /\ task[t].pc = "finish"
    /\ task' = [task EXCEPT ![t].pc = "done"]
    /\ event' = Told("finish", t, "-", task[t].failed_images, "-", <<>>)
    /\ UNCHANGED <<inventory_vars, scan_vars, sess, clock>>

\* lines 277-294: the final status.
Finish(t) ==
    /\ task[t].pc = "finish"
    /\ scan_status' = IF task[t].failed_images = NumImages THEN FAILED ELSE COMPLETED
    /\ task' = [task EXCEPT ![t].pc = "done"]
    /\ event' = Told("finish", t, "-", task[t].failed_images, "-", <<>>)
    /\ UNCHANGED <<inventory_vars, processed_images, image_status, detections,
                   sess, clock>>

\* GET /process/{scan_id}/results (lines 495-589): read-only; the answer
\* carries the scan's current status and the Detection rows stored so far.
get_processing_results(scan_id) ==
    /\ event' = IF scan_id # TheScan
                  THEN Told("results", 0, "-", scan_id, "404", <<>>)
                ELSE Told("results", 0, scan_status, scan_id, "200", detections)
    /\ UNCHANGED <<inventory_vars, scan_vars, sess, task, clock>>

ProcessingNext(slots, texts) ==
    \/ \E id \in ScanIds : start_processing(id, slots)
    \/ \E t \in slots : Begin(t)
    \/ \E t \in slots : Fatal(t)
    \/ \E t \in slots : UpdateProgress(t)
    \/ \E t \in slots : MarkProcessing(t)
    \/ \E t \in slots : DetectionFailed(t)
    \/ \E t \in slots, text \in texts : ImageCompleted(t, text)
    \/ \E t \in slots, text \in texts, added \in 0..2 : ImageException(t, text, added)
    \/ \E t \in slots : Finish(t)

\* End to end: one upload is processed and the inventory is maintained.
Next == InventoryNext(FlowSessions) \/ ProcessingNext(FlowTasks, VisionTexts)

Spec == Init /\ [][Next]_vars

\* Processing only: start requests and background tasks of one scan.
NextScan == ProcessingNext(Tasks, ScanTexts)

SpecScan == Init /\ [][NextScan]_vars

\* Concurrent inventory requests over the detections of one processed upload.
NextInv == InventoryNext(Sessions) \/ ProcessingNext(FlowTasks, InvTexts)

SpecInv == Init /\ [][NextInv]_vars

\* The steps of one background task.  The event loop runs every scheduled
\* task, each database call returns, and detect_badges returns a success or a
\* failure after its bounded retries: a task that can step eventually does.
TaskStep(t) ==
    \/ Begin(t)
    \/ Fatal(t)
    \/ UpdateProgress(t)
    \/ MarkProcessing(t)
    \/ DetectionFailed(t)
    \/ \E text \in ScanTexts : ImageCompleted(t, text)
    \/ \E text \in ScanTexts, added \in 0..2 : ImageException(t, text, added)
    \/ Finish(t)

SpecLive == Init /\ [][NextScan]_vars /\ \A t \in Tasks : WF_vars(TaskStep(t))

\* Name normalization on its own: any name, normalized up to twice.
InitNames ==
    /\ quantity = [b \in Badges |-> InitialQuantity]
    /\ last_updated = [b \in Badges |-> 0]
    /\ adjustments = <<>>
    /\ scan_status = PENDING
    /\ processed_images = 0
    /\ image_status = [i \in Images |-> PENDING]
    /\ detections = <<>>
    /\ sess = [s \in Sessions |-> Idle]
    /\ task = [t \in Tasks |-> NoTask]
    /\ clock = 0
    /\ \E name \in Names : event = Told("name", 0, "-", 0, "-", name)

NextNames == Normalize

SpecNames == InitNames /\ [][NextNames]_vars

\* The matcher on its own: one call per catalog, threshold and name.
InitMatch ==
    /\ quantity = [b \in Badges |-> InitialQuantity]
    /\ last_updated = [b \in Badges |-> 0]
    /\ adjustments = <<>>
    /\ scan_status = PENDING
    /\ processed_images = 0
    /\ image_status = [i \in Images |-> PENDING]
    /\ detections = <<>>
    /\ sess = [s \in Sessions |-> Idle]
    /\ task = [t \in Tasks |-> NoTask]
    /\ clock = 0
    /\ \E badges \in Catalogs, min_match_score \in MinScores, name \in MatchNames :
          event = Told("call", 0, name, min_match_score, "-", badges)

NextMatch == Match

SpecMatch == InitMatch /\ [][NextMatch]_vars

\* The parser: one call per text.
InitParse ==
    /\ quantity = [b \in Badges |-> InitialQuantity]
    /\ last_updated = [b \in Badges |-> 0]
    /\ adjustments = <<>>
    /\ scan_status = PENDING
    /\ processed_images = 0
    /\ image_status = [i \in Images |-> PENDING]
    /\ detections = <<>>
    /\ sess = [s \in Sessions |-> Idle]
    /\ task = [t \in Tasks |-> NoTask]
    /\ clock = 0
    /\ \E text \in ParseTexts : event = Told("parse?", 0, "-", 0, "-", text)

NextParse == Parse

SpecParse == InitParse /\ [][NextParse]_vars

\* The matcher's scores: one call per catalog, name, confidence and hint.
InitScore ==
    /\ quantity = [b \in Badges |-> InitialQuantity]
    /\ last_updated = [b \in Badges |-> 0]
    /\ adjustments = <<>>
    /\ scan_status = PENDING
    /\ processed_images = 0
    /\ image_status = [i \in Images |-> PENDING]
    /\ detections = <<>>
    /\ sess = [s \in Sessions |-> Idle]
    /\ task = [t \in Tasks |-> NoTask]
    /\ clock = 0
    /\ \E badges \in Catalogs, name \in MatchNames, c \in Confidences,
          hint \in CategoryHints :
          event = Told("score?", 0, name, c, hint, badges)

NextScore == Score

SpecScore == InitScore /\ [][NextScore]_vars

\* One processing run observed through the results endpoint.
NextResults ==
    \/ ProcessingNext(FlowTasks, ScanTexts)
    \/ \E id \in ScanIds : get_processing_results(id)

SpecResults == Init /\ [][NextResults]_vars

\* ==================================================================== claims

\* C1: in every reachable state every Inventory row has quantity >= 0.
C1_QuantityNeverNegative == \A b \in Badges : quantity[b] >= 0

\* C2: an adjustment whose result would be negative is answered 400, and the
\* Inventory quantities, their last_updated values, the InventoryAdjustment
\* rows and every open session are as they were before the call.
C2_RejectedAdjustmentChangesNothing ==
    [][(/\ event'.op = "adjust"
        /\ event'.badge \in Badges
        /\ quantity[event'.badge] + event'.arg < 0)
       => (/\ event'.result = "400"
           /\ quantity' = quantity
           /\ last_updated' = last_updated
           /\ adjustments' = adjustments
           /\ sess' = sess)]_vars

\* C2 witness: a -2 on a badge holding 1 was rejected, after an earlier
\* mutation of that badge had been committed.
C2_Witness ==
    /\ event.op = "adjust"
    /\ event.result = "400"
    /\ event.badge \in Badges
    /\ quantity[event.badge] = 1
    /\ quantity[event.badge] + event.arg < 0
    /\ adjustments # <<>>

\* the InventoryAdjustment rows of one badge, in commit order
RowsOf(b) == SelectSeq(adjustments, LAMBDA r : r.badge = b)

\* the rows a step appended to the audit log
NewRows == SubSeq(adjustments', Len(adjustments) + 1, Len(adjustments'))

IsDeltaRow(r) == r.reason \in {"adjust", "Updated from scan"}

\* C3: when two adjustments / reconciliations of one badge have both been
\* committed, the quantity is the initial quantity plus both amounts.
C3_NoLostUpdate ==
    \A b \in Badges :
       LET rows == RowsOf(b)
       IN (Len(rows) = 2 /\ IsDeltaRow(rows[1]) /\ IsDeltaRow(rows[2]))
          => quantity[b] = InitialQuantity + rows[1].adjustment + rows[2].adjustment

\* C4: every row a commit appends has new_quantity - old_quantity = adjustment
\* and old_quantity equal to the quantity the Inventory row held right before
\* that commit, and the commit appends one row per badge it changes.
C4_AuditRowMatchesMutation ==
    [][/\ \A i \in 1..Len(NewRows) :
            /\ NewRows[i].new_quantity - NewRows[i].old_quantity = NewRows[i].adjustment
            /\ NewRows[i].old_quantity = quantity[NewRows[i].badge]
       /\ \A b \in Badges :
            Cardinality({i \in 1..Len(NewRows) : NewRows[i].badge = b}) =
              (IF last_updated'[b] # last_updated[b] THEN 1 ELSE 0)]_vars

\* C5: a step changes an Inventory row exactly when it appends that badge's
\* one audit row, the appended row carries the quantity that became visible,
\* rows already written are kept, and a failed request persists nothing.
C5_QuantityAndAuditTogether ==
    [][/\ Len(adjustments') >= Len(adjustments)
       /\ SubSeq(adjustments', 1, Len(adjustments)) = adjustments
       /\ \A b \in Badges :
            /\ (quantity'[b] # quantity[b] \/ last_updated'[b] # last_updated[b])
                 <=> \E i \in 1..Len(NewRows) : NewRows[i].badge = b
            /\ Cardinality({i \in 1..Len(NewRows) : NewRows[i].badge = b}) <= 1
       /\ \A i \in 1..Len(NewRows) :
            quantity'[NewRows[i].badge] = NewRows[i].new_quantity
       /\ event'.result = "500" =>
            (quantity' = quantity /\ last_updated' = last_updated
             /\ adjustments' = adjustments)]_vars

\* C5 witness: a reconciliation of two badges failed after preparing the first
\* of its two updates and was rolled back; an earlier mutation is on record.
C5_Witness ==
    /\ event.op = "rollback"
    /\ Len(event.updates) = 2
    /\ event.arg = 1
    /\ adjustments # <<>>

\* the images a finished run of task t counted as failed
FailedIn(t) == {i \in Images : task[t].seen[i] = FAILED}

C7_StatusOnlyMovesForward ==
    [][\/ scan_status' = scan_status
       \/ (scan_status = PENDING /\ scan_status' = PROCESSING)
       \/ (scan_status = PROCESSING /\ scan_status' \in {COMPLETED, FAILED})]_vars

RECURSIVE DetectedTotal(_, _)
DetectedTotal(dets, b) ==
    IF dets = <<>> THEN 0
    ELSE (IF Head(dets).badge = b THEN Head(dets).quantity ELSE 0)
         + DetectedTotal(Tail(dets), b)

\* one update per badge with Detection rows, its amount their total, and no
\* update for a badge without Detection rows
OnePerDetectedBadge(updates) ==
    \A b \in Badges :
       LET mine == {i \in 1..Len(updates) : updates[i].badge = b}
       IN IF \E k \in 1..Len(detections) : detections[k].badge = b
            THEN /\ Cardinality(mine) = 1
                 /\ \A i \in mine : updates[i].adjustment = DetectedTotal(detections, b)
          ELSE mine = {}

\* C9: the updates a reconciliation of the completed scan prepares, previews
\* and commits are one per badge with Detection rows, each of the summed
\* quantity, and the commit appends exactly these rows.
C9_OneSummedAdjustmentPerBadge ==
    /\ (event.op = "scan" /\ event.result \in {"loaded", "200"})
       => OnePerDetectedBadge(event.updates)
    /\ (event.op = "commit" /\ \E s \in Sessions : sess[s].pc = "idle" /\ event.who = s
          /\ event.updates # <<>> /\ event.updates[1].reason = "Updated from scan")
       => /\ OnePerDetectedBadge(event.updates)
          /\ Len(adjustments) >= Len(event.updates)
          /\ SubSeq(adjustments, Len(adjustments) - Len(event.updates) + 1,
                    Len(adjustments)) = event.updates

\* C9 witness: a reconciliation was committed whose single row for a badge
\* adds 3, the total of that badge's detections 1 and 2 in two images.
C9_Witness ==
    /\ event.op = "commit"
    /\ \E i \in 1..Len(event.updates) :
          /\ event.updates[i].reason = "Updated from scan"
          /\ event.updates[i].adjustment = 3
          /\ \E k, l \in 1..Len(detections) :
                /\ detections[k].badge = event.updates[i].badge
                /\ detections[l].badge = event.updates[i].badge
                /\ detections[k].scan_image_id # detections[l].scan_image_id
                /\ detections[k].quantity = 1 /\ detections[l].quantity = 2

\* C10: a preview answers with the updates apply mode prepares from the same
\* state and leaves Inventory, the audit log and the sessions untouched.
C10_PreviewChangesNothing ==
    [][(event'.op = "scan" /\ event'.arg = 0 /\ event'.result = "200")
       => /\ event'.updates = ScanUpdates(quantity, detections, TheScan)
          /\ \A i \in 1..Len(event'.updates) :
                /\ event'.updates[i].old_quantity = quantity[event'.updates[i].badge]
                /\ event'.updates[i].new_quantity =
                     event'.updates[i].old_quantity + event'.updates[i].adjustment
          /\ quantity' = quantity
          /\ last_updated' = last_updated
          /\ adjustments' = adjustments
          /\ sess' = sess]_vars

\* C10 witness: a preview listed updates for two badges after an earlier
\* mutation, and nothing is pending.
C10_Witness ==
    /\ event.op = "scan" /\ event.arg = 0 /\ event.result = "200"
    /\ Len(event.updates) = 2
    /\ adjustments # <<>>
    /\ \A s \in Sessions : sess[s].pc = "idle"

\* C11: a reconciliation requested for an unknown scan, or for the scan while
\* it is pending, processing or failed, is answered 404 / 400 and leaves
\* Inventory, the audit log and every session (no pending write) untouched.
C11_ReconcileRejectedUnlessCompleted ==
    [][\A s \in Sessions, id \in ScanIds, apply \in BOOLEAN :
          (update_inventory_from_scan(s, id, apply)
             /\ (id # TheScan \/ scan_status # COMPLETED))
          => /\ event'.result = (IF id # TheScan THEN "404" ELSE "400")
             /\ quantity' = quantity
             /\ last_updated' = last_updated
             /\ adjustments' = adjustments
             /\ sess' = sess]_vars

\* C11 witness: an apply-mode reconciliation was refused with 400 while the
\* scan was processing and already had Detection rows.
C11_Witness ==
    /\ event.op = "scan" /\ event.arg = 1 /\ event.result = "400"
    /\ scan_status = PROCESSING
    /\ detections # <<>>

SecondStart ==
    /\ start_processing(TheScan, Tasks)
    /\ task[1].pc # "free"
    /\ task[2].pc = "free"

C14_ResultsOnlyWhenFinished ==
    (event.op = "results" /\ event.result = "200")
    => scan_status \in {COMPLETED, FAILED}

\* the Detection rows of one image, in insertion order
RowsOfImage(i) == SelectSeq(detections, LAMBDA d : d.scan_image_id = i)

IsPrefix(a, b) == Len(a) <= Len(b) /\ SubSeq(b, 1, Len(a)) = a

\* C15: the Detection rows of every image are the matched detections of one
\* vision response for that image, one row each (or the first of them, when
\* the image failed part-way): no matched detection is stored twice.
C15_OneRecordPerMatchedDetection ==
    \A i \in Images :
       \E text \in ScanTexts :
          IsPrefix(RowsOfImage(i), MatchedDetections(i, ParseResponse(text)))

\* the raw detections of a response whose match result is matched
MatchedRaw(text) ==
    SelectSeq(ParseResponse(text), LAMBDA r : match_badge_name(r.badge_name).matched)

\* the rows a step appended to the Detection table
NewDetections == SubSeq(detections', Len(detections) + 1, Len(detections'))

\* rows are one per matched raw detection of `text`, with its badge and count
RowsAreOf(rows, image, raw) ==
    /\ Len(rows) <= Len(raw)
    /\ \A k \in 1..Len(rows) :
          rows[k] = BadgeDetection(image, match_badge_name(raw[k].badge_name).badge_id,
                                   raw[k].count)

RECURSIVE SumQuantity(_)
SumQuantity(dets) ==
    IF dets = <<>> THEN 0 ELSE Head(dets).quantity + SumQuantity(Tail(dets))

RECURSIVE SumAdjustment(_)
SumAdjustment(updates) ==
    IF updates = <<>> THEN 0 ELSE Head(updates).adjustment + SumAdjustment(Tail(updates))

\* C16: an image's step stores rows for the matched raw detections of its
\* response only (all of them when the image completes), so an unmatched raw
\* detection gets no row; and the adjustments a reconciliation computes add
\* up to the quantities of the Detection rows, so its count adds nothing.
C16_UnmatchedNeverPersisted ==
    [][/\ \A t \in Tasks, text \in VisionTexts :
            ImageCompleted(t, text)
            => /\ RowsAreOf(NewDetections, task[t].idx, MatchedRaw(text))
               /\ Len(NewDetections) = Len(MatchedRaw(text))
       /\ \A t \in Tasks, text \in VisionTexts, added \in 0..2 :
            ImageException(t, text, added)
            => RowsAreOf(NewDetections, task[t].idx, MatchedRaw(text))
       /\ (event'.op = "scan" /\ event'.result \in {"loaded", "200"})
            => SumAdjustment(event'.updates) = SumQuantity(detections)]_vars

\* C16 witness: a reconciliation listed updates for a scan one of whose
\* completed images has no Detection row, its response having held only
\* detections that did not match.
C16_Witness ==
    /\ event.op = "scan" /\ event.result \in {"loaded", "200"}
    /\ event.updates # <<>>
    /\ \E i \in Images :
          /\ image_status[i] = COMPLETED
          /\ RowsOfImage(i) = <<>>
    /\ \A text \in VisionTexts :
          MatchedRaw(text) = <<>> => ParseResponse(text) # <<>>

C18_InvalidSetChangesNothing ==
    [][\A s \in Sessions, b \in BadgeIds, q \in SetQuantities :
          (update_inventory_quantity(s, b, q) /\ (q < 0 \/ b \notin Badges))
          => /\ event'.result = (IF q < 0 THEN "422" ELSE "404")
             /\ quantity' = quantity
             /\ last_updated' = last_updated
             /\ adjustments' = adjustments
             /\ sess' = sess]_vars

\* C18 witness: a negative quantity was refused with 422 while a badge held
\* stock and another request had its write pending.
C18_Witness ==
    /\ event.op = "set" /\ event.result = "422" /\ event.arg < 0
    /\ \E b \in Badges : quantity[b] > 0
    /\ \E s \in Sessions : sess[s].pc = "loaded"

\* C19: normalizing a normalized name gives the same name again.
C19_NormalizeIdempotent ==
    (event.op = "normalized" /\ event.arg = 2) => event.updates = event.badge

\* C20: the BadgeMatch a call returns has matched = TRUE exactly when its
\* match_score is at least the service's min_match_score.
C20_MatchedIffScoreReachesThreshold ==
    (event.op = "match")
    => (event.updates.matched <=> event.updates.match_score >= event.arg)

\* C21: the BadgeMatch a call returns has match_score within 0..100 and
\* confidence_score within 0..1 (0..1000 thousandths).
C21_ScoresWithinRange ==
    (event.op = "score")
    => /\ event.updates.match_score >= 0 /\ event.updates.match_score <= 100
       /\ event.updates.confidence_score >= 0 /\ event.updates.confidence_score <= 1000

\* C22: images of a scan are handled one at a time in upload order: after
\* every step at most one image is PROCESSING, and a step that takes an image
\* out of PENDING finds every earlier image COMPLETED or FAILED.
C22_OneImageAtATimeInOrder ==
    [][/\ Cardinality({i \in Images : image_status'[i] = PROCESSING}) <= 1
       /\ \A i \in Images :
             (image_status[i] = PENDING /\ image_status'[i] # PENDING)
             => \A j \in Images : j < i => image_status[j] \in {COMPLETED, FAILED}]_vars

\* C23: a step that marks the scan FAILED finds every image FAILED, or is the
\* handling of an exception raised before any image was attempted; and it
\* never marks FAILED a scan that holds a COMPLETED image.
C23_FailedOnlyIfAllImagesFailed ==
    [][(scan_status # FAILED /\ scan_status' = FAILED)
       => /\ \/ \A i \in Images : image_status'[i] = FAILED
             \/ event'.op = "fatal"
          /\ \A i \in Images : image_status'[i] # COMPLETED]_vars

\* C24: every RawDetection the parser returns has count >= 0.
C24_ParsedCountsNonNegative ==
    (event.op = "parse")
    => \A k \in 1..Len(event.updates) : event.updates[k].count >= 0

\* the runs of the scan scheduled so far
Runs == {t \in Tasks : task[t].pc # "free"}

C26_AtMostOneRun ==
    Cardinality({t \in Tasks : task[t].pc \notin {"free", "scheduled"}}) <= 1

\* C27: once a run has ended and the scan is COMPLETED or FAILED,
\* processed_images equals the number of images whose status is COMPLETED.
C27_ProcessedCountsCompletedImages ==
    (scan_status \in {COMPLETED, FAILED} /\ \E t \in Tasks : task[t].pc = "done")
    => processed_images = Cardinality({i \in Images : image_status[i] = COMPLETED})

\* C28: replaying the audit rows of a badge gives its quantity: the quantity
\* is the initial one plus the adjustments of the badge's rows, and in commit
\* order each row starts from the quantity the previous row ended with.
C28_AuditReplayGivesQuantity ==
    \A b \in Badges :
        LET rows == RowsOf(b)
        IN /\ quantity[b] = InitialQuantity + SumAdjustment(rows)
           /\ \A k \in 2..Len(rows) : rows[k].old_quantity = rows[k - 1].new_quantity

\* C29: the commit of an apply-mode reconciliation of a scan whose detections
\* an earlier reconciliation has already added leaves the quantities and the
\* audit rows as they were.
C29_SecondReconcileChangesNothing ==
    [][\A s \in Sessions :
          (Commit(s) /\ sess[s].op = "scan"
             /\ \E k \in 1..Len(adjustments) :
                   adjustments[k].reason = "Updated from scan"
                   /\ adjustments[k].scan_id = TheScan)
          => /\ quantity' = quantity
             /\ adjustments' = adjustments]_vars

\* C30: an image whose status is FAILED has no Detection rows.
C30_FailedImageHasNoDetections ==
    \A i \in Images : image_status[i] = FAILED => RowsOfImage(i) = <<>>

====
